---- MODULE Spec2Model ----
(***************************************************************************)
(* A model of download_bench.py: run_download_bench runs bench_download    *)
(* over itertools.product(FILES, DOWNLOAD_FUNCTIONS), first in the main    *)
(* thread and then through ThreadPoolExecutor(max_workers=1).map.          *)
(*                                                                         *)
(* Byte strings are sequences of slices [src, lo, hi] ("bytes lo..hi-1 of  *)
(* the remote object src"), kept canonical (adjacent slices merged), so    *)
(* that the real block size of 1 MiB can be used without enumerating       *)
(* bytes.  MD5 is taken to be collision free: a digest is the hashed       *)
(* string under a tag.  The network, the external tools and the clock are  *)
(* the environment: what a strategy writes, whether it raises, and how     *)
(* long it takes are chosen nondeterministically.                          *)
(***************************************************************************)
EXTENDS Integers, Sequences, FiniteSets, TLC

\* ------------------------------------------------------------------ bounds
\* Number of file descriptors in FILES (the source lists three).
NumFiles == 2
\* Number of registered download functions (the source registers four).
NumFuncs == 2
\* Largest duration, in clock ticks, of one strategy call.  0 is a call
\* shorter than the clock's resolution.
MaxElapsed == 1
\* Largest number of environment faults in one run (a strategy raising, or
\* a strategy call shorter than the clock's resolution).
MaxFaults == 1
\* Largest file length, in blocks, read by calc_md5 in SpecMd5.
MaxBlocks == 2

\* ------------------------------------------------------- program constants
\* fp.read(1024 * 1024)
BlockSize == 1048576

max_workers_two == 1 + 1
\* ThreadPoolExecutor(max_workers=1)
max_workers == 1

\* ------------------------------------------------------------ byte strings
RECURSIVE BLen(_)
BLen(b) == IF b = <<>> THEN 0 ELSE (Head(b).hi - Head(b).lo) + BLen(Tail(b))

\* a + b on byte strings
Concat(a, b) ==
    IF a = <<>> THEN b
    ELSE IF b = <<>> THEN a
    ELSE LET la == a[Len(a)]
             hb == Head(b)
         IN IF la.src = hb.src /\ la.hi = hb.lo
            THEN SubSeq(a, 1, Len(a) - 1) \o <<[la EXCEPT !.hi = hb.hi]>> \o Tail(b)
            ELSE a \o b

RECURSIVE Drop(_, _)
Drop(b, k) ==
    IF b = <<>> \/ k = 0 THEN b
    ELSE LET s == Head(b)
             l == s.hi - s.lo
         IN IF k >= l THEN Drop(Tail(b), k - l)
            ELSE <<[s EXCEPT !.lo = s.lo + k]>> \o Tail(b)

RECURSIVE Take(_, _)
Take(b, k) ==
    IF b = <<>> \/ k = 0 THEN <<>>
    ELSE LET s == Head(b)
             l == s.hi - s.lo
         IN IF k >= l THEN Concat(<<s>>, Take(Tail(b), k - l))
            ELSE <<[s EXCEPT !.hi = s.lo + k]>>

\* The first n bytes of the remote object src.
Prefix(src, n) == IF n = 0 THEN <<>> ELSE <<[src |-> src, lo |-> 0, hi |-> n]>>

\* --------------------------------------------------------------- hashing
\* fp.read(n) on a buffered binary file at offset pos: up to n bytes, b''
\* at end of file.
read_skips_byte(content, pos, n) == Take(Drop(content, pos + 1), n)
read(content, pos, n) == Take(Drop(content, pos), n)

\* hashlib.md5(): a fresh accumulator.
md5_new == <<>>

\* md5hash.update(chunk)
md5_update_replace(h, chunk) == chunk
md5_update(h, chunk) == Concat(h, chunk)

\* md5hash.digest()
md5_digest(h) == [md5 |-> h]

b64encode(d) == [b64 |-> d]

\* The digest of a whole byte string hashed at once.
md5_b64(content) == b64encode(md5_digest(md5_update(md5_new, content)))

\* ----------------------------------------------------- the program's data
\* The remote object behind FILES[f]['url'] (environment): one block and a
\* partial second one, of a length that differs from file to file.
RemoteLen(f) == BlockSize + f
Remote(f) == Prefix(f, RemoteLen(f))

\* FILES: the md5 of a descriptor is the digest of the remote object.
FILES == [f \in 1..NumFiles |-> [name |-> f, url |-> f, md5 |-> md5_b64(Remote(f)), size |-> RemoteLen(f)]]

\* DOWNLOAD_FUNCTIONS, in registration order (the bench decorator appends).
DOWNLOAD_FUNCTIONS == [g \in 1..NumFuncs |-> g]

\* itertools.product(A, B): the rightmost sequence advances fastest.
product(A, B) ==
    [i \in 1..(Len(A) * Len(B)) |-> <<A[((i - 1) \div Len(B)) + 1], B[((i - 1) % Len(B)) + 1]>>]

Pairs == product(FILES, DOWNLOAD_FUNCTIONS)
P == Len(Pairs)

\* What a strategy that returns may have left in fname: the whole object,
\* its first block only, or nothing (environment).
Written(url) == {Remote(url), Take(Remote(url), BlockSize), <<>>}
\* What a strategy that raises may have left in fname.
PartialWrites(url) == {Take(Remote(url), BlockSize), <<>>}

\* ------------------------------------------------------------------ state
VARIABLES
    pc,        \* position of the main thread in run_download_bench
    idx,       \* main pass: index of the pair being benchmarked
    exc,       \* an exception is propagating out of run_download_bench
    fs,        \* executor.map: the futures still to be collected (reversed)
    futures,   \* futures[k]: state and exception of the k-th submitted task
    queue,     \* the executor's work queue (task indices)
    shutdown,  \* the executor's _shutdown flag
    wpc,       \* wpc[w]: state of worker thread w
    wtask,     \* wtask[w]: the work item worker w is running
    frame,     \* frame[t]: the bench_download frame of thread t
    files,     \* the temporary files that exist: name -> content
    created,   \* number of temporary files created so far (names are fresh)
    faults,    \* environment faults so far
    started,   \* history: the <<pass, pair index>> of every strategy call, in order
    errors     \* history: every exception raised, with Len(started) at that time

vars == <<pc, idx, exc, fs, futures, queue, shutdown, wpc, wtask, frame, files,
          created, faults, started, errors>>

MainThread == 0
Workers == 1..max_workers
Threads == {MainThread} \cup Workers

\* A frame's clock field "now" is time() read relative to the entry of the
\* iteration: only differences of timestamps are ever used.  Creating the
\* file, opening it for hashing and the size lookup take one tick each; the
\* strategy call takes 0..MaxElapsed ticks.  dl and wrote are history: the
\* ticks the strategy call took and the content it left.
NoDigest == b64encode(md5_digest(<<[src |-> 0, lo |-> 0, hi |-> 0]>>))

NoFrame ==
    [pc |-> "none", pass |-> "none", p |-> 0, name |-> 0, now |-> 0, total_time |-> 0,
     md5hash |-> <<>>, pos |-> 0, fed |-> <<>>, md5 |-> NoDigest, lines |-> <<>>,
     exc |-> FALSE, dl |-> 0, wrote |-> <<>>]

\* A call bench_download(*Pairs[p]) entered by a thread.
NewFrame(pass, p) == [NoFrame EXCEPT !.pc = "mktemp", !.pass = pass, !.p = p]

file_desc(fr) == Pairs[fr.p][1]
download_func(fr) == Pairs[fr.p][2]

Put(fsys, name, content) ==
    [n \in (DOMAIN fsys) \cup {name} |-> IF n = name THEN content ELSE fsys[n]]
Remove(fsys, name) == [n \in (DOMAIN fsys) \ {name} |-> fsys[n]]

Init ==
    /\ pc = "start"
    /\ idx = 0
    /\ exc = FALSE
    /\ fs = <<>>
    /\ futures = <<>>
    /\ queue = <<>>
    /\ shutdown = FALSE
    /\ wpc = [w \in Workers |-> "unstarted"]
    /\ wtask = [w \in Workers |-> 0]
    /\ frame = [t \in Threads |-> NoFrame]
    /\ files = <<>>
    /\ created = 0
    /\ faults = 0
    /\ started = <<>>
    /\ errors = <<>>

\* --------------------------------------------------------- bench_download
\* fp = tempfile.NamedTemporaryFile(delete=False); fp.close()
mktemp(t) ==
    /\ frame[t].pc = "mktemp"
    /\ created' = created + 1
    /\ files' = Put(files, created + 1, <<>>)
    /\ frame' = [frame EXCEPT ![t].name = created + 1, ![t].now = @ + 1, ![t].pc = "wrapper"]
    /\ UNCHANGED <<pc, idx, exc, fs, futures, queue, shutdown, wpc, wtask, faults, started,
                   errors>>

\* return end - start
wrapper_result_no_start(start, end) == end
wrapper_result(start, end) == end - start

\* bench.wrapper: start = time(); download_func(url, fname); end = time().
\* The strategy either returns, having written some content and taken d
\* ticks, or raises.
wrapper(t) ==
    /\ frame[t].pc = "wrapper"
    /\ LET fr == frame[t]
           url == file_desc(fr).url
           start == fr.now
       IN /\ started' = Append(started, <<fr.pass, fr.p>>)
          /\ \/ \E d \in 0..MaxElapsed, c \in Written(url) :
                  /\ d = 0 => faults < MaxFaults
                  /\ faults' = IF d = 0 THEN faults + 1 ELSE faults
                  /\ files' = Put(files, fr.name, c)
                  /\ frame' = [frame EXCEPT ![t].now = start + d,
                                            ![t].total_time = wrapper_result(start, start + d),
                                            ![t].dl = d,
                                            ![t].wrote = c,
                                            ![t].pc = "md5_open"]
                  /\ UNCHANGED errors
             \/ \E c \in PartialWrites(url) :
                  /\ faults < MaxFaults
                  /\ faults' = faults + 1
                  /\ files' = Put(files, fr.name, c)
                  /\ frame' = [frame EXCEPT ![t].exc = TRUE, ![t].pc = "unlink"]
                  /\ errors' = Append(errors, [pass |-> fr.pass, p |-> fr.p, kind |-> "strategy",
                                               at |-> Len(started) + 1])
    /\ UNCHANGED <<pc, idx, exc, fs, futures, queue, shutdown, wpc, wtask, created>>

\* calc_md5: open(fname, 'rb'); md5hash = hashlib.md5()
md5_open(t) ==
    /\ frame[t].pc = "md5_open"
    /\ frame' = [frame EXCEPT ![t].md5hash = md5_new, ![t].pos = 0, ![t].fed = <<>>,
                              ![t].now = @ + 1, ![t].pc = "md5_read"]
    /\ UNCHANGED <<pc, idx, exc, fs, futures, queue, shutdown, wpc, wtask, files, created,
                   faults, started, errors>>

\* calc_md5: one round of iter(lambda: fp.read(1024 * 1024), b''), and the
\* return once the sentinel is read.
md5_read(t) ==
    /\ frame[t].pc = "md5_read"
    /\ LET fr == frame[t]
           chunk == read(files[fr.name], fr.pos, BlockSize)
       IN IF chunk = <<>>
          THEN frame' = [frame EXCEPT ![t].md5 = b64encode(md5_digest(fr.md5hash)),
                                      ![t].pc = "compare"]
          ELSE frame' = [frame EXCEPT ![t].md5hash = md5_update(fr.md5hash, chunk),
                                      ![t].pos = fr.pos + BLen(chunk),
                                      ![t].fed = Append(fr.fed, chunk)]
    /\ UNCHANGED <<pc, idx, exc, fs, futures, queue, shutdown, wpc, wtask, files, created,
                   faults, started, errors>>

\* file_size: fp.seek(0, 2)
file_size(content) == BLen(content)

\* total_bytes / total_time, kept as the exact quotient
speed_of(total_bytes, total_time) == [num |-> total_bytes, den |-> total_time]

\* if md5 != file_desc['md5']: print(f'Error in benchmark of ...')
report_mismatch_raises(fr) ==
    [fr EXCEPT !.lines = Append(@, <<"error", download_func(fr), file_desc(fr).name,
                                     file_desc(fr).size, fr.md5, file_desc(fr).md5>>),
               !.exc = TRUE,
               !.pc = "unlink"]
report_mismatch(fr) ==
    [fr EXCEPT !.lines = Append(@, <<"error", download_func(fr), file_desc(fr).name,
                                     file_desc(fr).size, fr.md5, file_desc(fr).md5>>),
               !.pc = "unlink"]

\* else: total_bytes = file_size(fp.name); speed = total_bytes / total_time
\* (ZeroDivisionError when total_time is 0); print(...)
report_match(fr, total_bytes) ==
    IF fr.total_time = 0
    THEN [fr EXCEPT !.exc = TRUE, !.now = @ + 1, !.pc = "unlink"]
    ELSE [fr EXCEPT !.lines = Append(@, <<"speed", download_func(fr), fr.total_time, total_bytes,
                                          speed_of(total_bytes, fr.total_time)>>),
                    !.now = @ + 1,
                    !.pc = "unlink"]

\* The if/else of bench_download, once calc_md5 has returned.
report(t) ==
    /\ frame[t].pc = "compare"
    /\ LET fr == frame[t]
           mismatch == fr.md5 # file_desc(fr).md5
           after == IF mismatch THEN report_mismatch(fr)
                    ELSE report_match(fr, file_size(files[fr.name]))
       IN /\ frame' = [frame EXCEPT ![t] = after]
          /\ errors' = IF ~mismatch /\ fr.total_time = 0
                       THEN Append(errors, [pass |-> fr.pass, p |-> fr.p,
                                            kind |-> "ZeroDivisionError", at |-> Len(started)])
                       ELSE errors
    /\ UNCHANGED <<pc, idx, exc, fs, futures, queue, shutdown, wpc, wtask, files, created,
                   faults, started>>

unlink_only_on_success(t) ==
    /\ frame[t].pc = "unlink"
    /\ files' = IF frame[t].exc THEN files ELSE Remove(files, frame[t].name)
    /\ frame' = [frame EXCEPT ![t].pc = IF frame[t].exc THEN "raised" ELSE "returned"]
    /\ UNCHANGED <<pc, idx, exc, fs, futures, queue, shutdown, wpc, wtask, created, faults,
                   started, errors>>

\* finally: os.unlink(fp.name); then the return, or the exception goes on.
unlink(t) ==
    /\ frame[t].pc = "unlink"
    /\ files' = Remove(files, frame[t].name)
    /\ frame' = [frame EXCEPT ![t].pc = IF frame[t].exc THEN "raised" ELSE "returned"]
    /\ UNCHANGED <<pc, idx, exc, fs, futures, queue, shutdown, wpc, wtask, created, faults,
                   started, errors>>

\* ------------------------------------------------- run_download_bench
\* print('=== Benchmark download in main thread ===')
PrintHeaderMain ==
    /\ pc = "start"
    /\ pc' = "main_pass"
    /\ idx' = 1
    /\ UNCHANGED <<exc, fs, futures, queue, shutdown, wpc, wtask, frame, files, created,
                   faults, started, errors>>

\* list(map(...)): the next pair's bench_download is called.
MainCall ==
    /\ pc = "main_pass"
    /\ idx <= P
    /\ frame[MainThread].pc = "none"
    /\ frame' = [frame EXCEPT ![MainThread] = NewFrame("main", idx)]
    /\ UNCHANGED <<pc, idx, exc, fs, futures, queue, shutdown, wpc, wtask, files, created,
                   faults, started, errors>>

\* bench_download returned: map goes on to the next pair.
MainReturn ==
    /\ pc = "main_pass"
    /\ frame[MainThread].pc = "returned"
    /\ frame' = [frame EXCEPT ![MainThread] = NoFrame]
    /\ idx' = idx + 1
    /\ UNCHANGED <<pc, exc, fs, futures, queue, shutdown, wpc, wtask, files, created,
                   faults, started, errors>>

MainRaiseCaught ==
    /\ pc = "main_pass"
    /\ frame[MainThread].pc = "raised"
    /\ frame' = [frame EXCEPT ![MainThread] = NoFrame]
    /\ idx' = idx + 1
    /\ UNCHANGED <<pc, exc, fs, futures, queue, shutdown, wpc, wtask, files, created,
                   faults, started, errors>>

\* bench_download raised: nothing in run_download_bench catches it.
MainRaise ==
    /\ pc = "main_pass"
    /\ frame[MainThread].pc = "raised"
    /\ frame' = [frame EXCEPT ![MainThread] = NoFrame]
    /\ exc' = TRUE
    /\ pc' = "crashed"
    /\ UNCHANGED <<idx, fs, futures, queue, shutdown, wpc, wtask, files, created,
                   faults, started, errors>>

\* Executor.map: fs = [self.submit(fn, *args) for args in zip(*iterables)]
\* with submit spawning a worker thread while fewer than max_workers run;
\* then fs.reverse() in the result iterator.
Reverse(s) == [i \in 1..Len(s) |-> s[Len(s) + 1 - i]]

\* The main pass is over: the second header, the executor, executor.map.
ExecutorMap ==
    /\ pc = "main_pass"
    /\ idx = P + 1
    /\ futures' = [k \in 1..P |-> [state |-> "PENDING", exc |-> FALSE]]
    /\ queue' = [k \in 1..P |-> k]
    /\ fs' = Reverse([k \in 1..P |-> k])
    /\ wpc' = [w \in Workers |-> IF w <= P THEN "idle" ELSE "unstarted"]
    /\ pc' = "result"
    /\ UNCHANGED <<idx, exc, shutdown, wtask, frame, files, created, faults, started,
                   errors>>

\* result_iterator: yield fs.pop().result() for a finished future; an
\* exception of the task is raised here, and the finally clause is entered.
Result ==
    /\ pc = "result"
    /\ fs # <<>>
    /\ LET k == fs[Len(fs)]
       IN /\ futures[k].state \in {"FINISHED", "CANCELLED"}
          /\ fs' = SubSeq(fs, 1, Len(fs) - 1)
          /\ IF futures[k].state = "CANCELLED" \/ futures[k].exc
             THEN exc' = TRUE /\ pc' = "cancel"
             ELSE UNCHANGED <<exc, pc>>
    /\ UNCHANGED <<idx, futures, queue, shutdown, wpc, wtask, frame, files, created,
                   faults, started, errors>>

\* Every result was collected: the generator ends with fs empty.
ResultsDone ==
    /\ pc = "result"
    /\ fs = <<>>
    /\ pc' = "shutdown"
    /\ UNCHANGED <<idx, exc, fs, futures, queue, shutdown, wpc, wtask, frame, files,
                   created, faults, started, errors>>

\* Future.cancel(): only a pending future is cancelled.
cancel_nothing(fut) == fut
cancel(fut) == [fut EXCEPT !.state = IF @ = "PENDING" THEN "CANCELLED" ELSE @]

\* finally: for future in fs: future.cancel()   (fs is reversed: the last
\* submitted future is cancelled first)
Cancel ==
    /\ pc = "cancel"
    /\ IF fs = <<>>
       THEN pc' = "shutdown" /\ UNCHANGED <<fs, futures>>
       ELSE /\ futures' = [futures EXCEPT ![Head(fs)] = cancel(@)]
            /\ fs' = Tail(fs)
            /\ UNCHANGED pc
    /\ UNCHANGED <<idx, exc, queue, shutdown, wpc, wtask, frame, files, created,
                   faults, started, errors>>

\* with ThreadPoolExecutor(...) exits: shutdown(wait=True) sets the flag...
Shutdown ==
    /\ pc = "shutdown"
    /\ shutdown' = TRUE
    /\ pc' = "join"
    /\ UNCHANGED <<idx, exc, fs, futures, queue, wpc, wtask, frame, files, created,
                   faults, started, errors>>

\* ... and joins the worker threads; then run_download_bench returns, or
\* the exception leaves it.
Join ==
    /\ pc = "join"
    /\ \A w \in Workers : wpc[w] \in {"unstarted", "exited"}
    /\ pc' = IF exc THEN "crashed" ELSE "done"
    /\ UNCHANGED <<idx, exc, fs, futures, queue, shutdown, wpc, wtask, frame, files,
                   created, faults, started, errors>>

\* ------------------------------------------------------ the worker thread
\* _worker: work_item = work_queue.get(); work_item.run(): a cancelled
\* future is skipped (set_running_or_notify_cancel), any other is run.
WorkerGet(w) ==
    /\ wpc[w] = "idle"
    /\ queue # <<>>
    /\ LET k == Head(queue)
       IN /\ queue' = Tail(queue)
          /\ IF futures[k].state = "CANCELLED"
             THEN UNCHANGED <<futures, wpc, wtask, frame>>
             ELSE /\ futures' = [futures EXCEPT ![k].state = "RUNNING"]
                  /\ wpc' = [wpc EXCEPT ![w] = "run"]
                  /\ wtask' = [wtask EXCEPT ![w] = k]
                  /\ frame' = [frame EXCEPT ![w] = NewFrame("pool", k)]
    /\ UNCHANGED <<pc, idx, exc, fs, shutdown, files, created, faults, started, errors>>

\* _WorkItem.run: self.future.set_result(result)
WorkerSetResult(w) ==
    /\ wpc[w] = "run"
    /\ frame[w].pc = "returned"
    /\ futures' = [futures EXCEPT ![wtask[w]] = [state |-> "FINISHED", exc |-> FALSE]]
    /\ frame' = [frame EXCEPT ![w] = NoFrame]
    /\ wpc' = [wpc EXCEPT ![w] = "idle"]
    /\ wtask' = [wtask EXCEPT ![w] = 0]
    /\ UNCHANGED <<pc, idx, exc, fs, queue, shutdown, files, created, faults, started,
                   errors>>

\* _WorkItem.run: except BaseException as exc: self.future.set_exception(exc)
WorkerSetException(w) ==
    /\ wpc[w] = "run"
    /\ frame[w].pc = "raised"
    /\ futures' = [futures EXCEPT ![wtask[w]] = [state |-> "FINISHED", exc |-> TRUE]]
    /\ frame' = [frame EXCEPT ![w] = NoFrame]
    /\ wpc' = [wpc EXCEPT ![w] = "idle"]
    /\ wtask' = [wtask EXCEPT ![w] = 0]
    /\ UNCHANGED <<pc, idx, exc, fs, queue, shutdown, files, created, faults, started,
                   errors>>

\* _worker: the queue is drained and the executor is shut down: the thread ends.
WorkerExit(w) ==
    /\ wpc[w] = "idle"
    /\ queue = <<>>
    /\ shutdown
    /\ wpc' = [wpc EXCEPT ![w] = "exited"]
    /\ UNCHANGED <<pc, idx, exc, fs, futures, queue, shutdown, wtask, frame, files,
                   created, faults, started, errors>>

Next ==
    \/ PrintHeaderMain
    \/ MainCall
    \/ MainReturn
    \/ MainRaise
    \/ ExecutorMap
    \/ Result
    \/ ResultsDone
    \/ Cancel
    \/ Shutdown
    \/ Join
    \/ \E t \in Threads : mktemp(t)
    \/ \E t \in Threads : wrapper(t)
    \/ \E t \in Threads : md5_open(t)
    \/ \E t \in Threads : md5_read(t)
    \/ \E t \in Threads : report(t)
    \/ \E t \in Threads : unlink(t)
    \/ \E w \in Workers : WorkerGet(w)
    \/ \E w \in Workers : WorkerSetResult(w)
    \/ \E w \in Workers : WorkerSetException(w)
    \/ \E w \in Workers : WorkerExit(w)

Spec == Init /\ [][Next]_vars

\* The same program with its threads scheduled fairly: a thread that can
\* take a step eventually takes one.
ThreadStep(t) ==
    mktemp(t) \/ wrapper(t) \/ md5_open(t) \/ md5_read(t) \/ report(t) \/ unlink(t)

MainNext ==
    \/ PrintHeaderMain \/ MainCall \/ MainReturn \/ MainRaise \/ ExecutorMap
    \/ Result \/ ResultsDone \/ Cancel \/ Shutdown \/ Join
    \/ ThreadStep(MainThread)

WorkerNext(w) ==
    ThreadStep(w) \/ WorkerGet(w) \/ WorkerSetResult(w) \/ WorkerSetException(w) \/ WorkerExit(w)

SpecFair == Spec /\ WF_vars(MainNext) /\ \A w \in Workers : WF_vars(WorkerNext(w))

\* ------------------------------------------------ calc_md5 on its own
\* The file lengths calc_md5 is run on: around every multiple of the block
\* size up to MaxBlocks blocks (empty, shorter than a block, exact
\* multiples, one byte short of and one byte past a multiple).
Md5Lens == {n \in {k * BlockSize + e : k \in 0..MaxBlocks, e \in {-1, 0, 1}} : n >= 0}

\* bench_download about to call calc_md5(fp.name) in the main pass, the
\* strategy of pair p having left n bytes in the temporary file.
InitMd5 ==
    \E p \in 1..P, n \in Md5Lens :
        LET c == Prefix(Pairs[p][1].url, n)
        IN /\ pc = "main_pass"
           /\ idx = p
           /\ exc = FALSE
           /\ fs = <<>>
           /\ futures = <<>>
           /\ queue = <<>>
           /\ shutdown = FALSE
           /\ wpc = [w \in Workers |-> "unstarted"]
           /\ wtask = [w \in Workers |-> 0]
           /\ frame = [t \in Threads |->
                         IF t = MainThread
                         THEN [NewFrame("main", p) EXCEPT !.name = 1, !.now = 2, !.total_time = 1,
                                                          !.dl = 1, !.wrote = c, !.pc = "md5_open"]
                         ELSE NoFrame]
           /\ files = Put(<<>>, 1, c)
           /\ created = 1
           /\ faults = 0
           /\ started = <<<<"main", p>>>>
           /\ errors = <<>>

NextMd5 ==
    \/ md5_open(MainThread)
    \/ md5_read(MainThread)

\* calc_md5 runs without interruption until it returns.
SpecMd5 == InitMd5 /\ [][NextMd5]_vars /\ WF_vars(NextMd5)

\* ================================================================ claims
InProgress == {"mktemp", "wrapper", "md5_open", "md5_read", "compare", "unlink"}
HoldsFile == {"wrapper", "md5_open", "md5_read", "compare", "unlink"}
Ended == {"returned", "raised"}

\* calc_md5 has returned and the if/else of bench_download has run.
Reported(fr) == fr.pc \in {"unlink", "returned", "raised"} /\ fr.md5 # NoDigest

HasLine(fr, kind) == \E i \in 1..Len(fr.lines) : fr.lines[i][1] = kind

MainOrder == [i \in 1..P |-> <<"main", i>>]
PoolOrder == [i \in 1..P |-> <<"pool", i>>]
FullOrder == MainOrder \o PoolOrder
IsPrefix(a, b) == Len(a) <= Len(b) /\ a = SubSeq(b, 1, Len(a))

InSeq(x, seq) == \E i \in 1..Len(seq) : seq[i] = x

NoStrategyError == \A i \in 1..Len(errors) : errors[i].kind # "strategy"

RECURSIVE ConcatAll(_)
ConcatAll(chunks) == IF chunks = <<>> THEN <<>> ELSE Concat(Head(chunks), ConcatAll(Tail(chunks)))

\* C1: the temporary file of an iteration does not exist once the iteration
\* has ended (returned or raised), and every temporary file that exists
\* belongs to an iteration that has not ended yet.
C1_TempFileRemoved ==
    /\ \A t \in Threads : frame[t].pc \in Ended => frame[t].name \notin DOMAIN files
    /\ \A n \in DOMAIN files : \E t \in Threads : frame[t].name = n /\ frame[t].pc \in HoldsFile

\* An iteration of the pool pass has ended by raising, its file gone.
C1_Witness ==
    \E t \in Threads :
        /\ frame[t].pc = "raised"
        /\ frame[t].pass = "pool"
        /\ frame[t].name \notin DOMAIN files

\* C2: once the strategy has returned and the digest is computed, the
\* iteration prints exactly one line: a throughput line if the digest
\* equals the expected one, a mismatch line if not.
C2_ExactlyOneLine ==
    \A t \in Threads :
        Reported(frame[t]) =>
            /\ Len(frame[t].lines) = 1
            /\ frame[t].lines[1][1] = IF frame[t].md5 = file_desc(frame[t]).md5 THEN "speed" ELSE "error"

\* C3: when no strategy fails, every pair is run exactly once in the main
\* pass and exactly once in the pool pass, in cross-product order, and the
\* pool pass starts only after every main-pass iteration has ended.
C3_AllPairsOnceInOrder ==
    NoStrategyError =>
        /\ IsPrefix(started, FullOrder)
        /\ pc \in {"done", "crashed"} => started = FullOrder
        /\ (futures # <<>> \/ \E w \in Workers : frame[w].pc # "none") =>
               /\ frame[MainThread].pc = "none"
               /\ SubSeq(started, 1, P) = MainOrder

\* The same statement for the runs in which nothing at all is raised.
AllPairsOnceInOrderUnlessRaised ==
    errors = <<>> =>
        /\ IsPrefix(started, FullOrder)
        /\ pc \in {"done", "crashed"} => started = FullOrder /\ pc = "done"
        /\ (futures # <<>> \/ \E w \in Workers : frame[w].pc # "none") =>
               /\ frame[MainThread].pc = "none"
               /\ idx = P + 1

\* C4: at every moment at most one bench_download iteration is in progress,
\* at most one temporary file exists, and no temporary file is held by two
\* iterations.
C4_OneIterationAtATime ==
    /\ Cardinality({t \in Threads : frame[t].pc \in InProgress}) <= 1
    /\ Cardinality(DOMAIN files) <= 1
    /\ \A t1, t2 \in Threads :
           (t1 # t2 /\ frame[t1].pc \in HoldsFile /\ frame[t2].pc \in HoldsFile)
               => frame[t1].name # frame[t2].name

\* A pool iteration is hashing its file while later tasks, all submitted
\* up front, are still pending in the queue.
C4_Witness ==
    \E w \in Workers :
        /\ frame[w].pc = "md5_read"
        /\ Len(futures) = P
        /\ queue # <<>>
        /\ \E k \in 1..P : futures[k].state = "PENDING"

\* An iteration that printed the mismatch line does not raise.
C5_MismatchInv ==
    \A t \in Threads :
        HasLine(frame[t], "error") => ~frame[t].exc /\ frame[t].pc \in {"unlink", "returned"}

\* When such an iteration returns, the main pass goes on to the next index,
\* and the worker stores a normal result and goes back to the queue.
C5_MismatchStep ==
    /\ (frame[MainThread].pc = "returned" /\ HasLine(frame[MainThread], "error")
        /\ frame'[MainThread] # frame[MainThread])
           => pc' = "main_pass" /\ idx' = idx + 1 /\ ~exc'
    /\ \A w \in Workers :
           (frame[w].pc = "returned" /\ HasLine(frame[w], "error") /\ frame'[w] # frame[w])
               => /\ futures'[wtask[w]] = [state |-> "FINISHED", exc |-> FALSE]
                  /\ wpc'[w] = "idle"

\* C5: a digest mismatch is not fatal.  An iteration that printed the
\* mismatch line does not raise; when it returns, the main pass goes on to
\* the next index, and the worker stores a normal result and goes back to
\* the queue; and a run in which nothing raises, whatever the mismatches,
\* ends, normally, with every pair run in order in both passes.
C5_MismatchNonFatal ==
    /\ []C5_MismatchInv
    /\ [][C5_MismatchStep]_vars
    /\ []AllPairsOnceInOrderUnlessRaised
    /\ <>(pc \in {"done", "crashed"})

\* A pool iteration has printed the mismatch line and returned, with later
\* tasks still pending.
C5_Witness ==
    \E w \in Workers :
        /\ frame[w].pc = "returned"
        /\ HasLine(frame[w], "error")
        /\ \E k \in 1..Len(futures) : futures[k].state = "PENDING"

\* C6 (as claimed): a strategy failure aborts only its own iteration and
\* does not crash the run: the run does not end in the error, and it ends
\* with every pair run in both passes.
C6_StrategyFailureDoesNotCrash ==
    (\A i \in 1..Len(errors) : errors[i].kind = "strategy") =>
        /\ pc # "crashed"
        /\ pc = "done" => started = FullOrder

\* C6 (amended): a strategy failure aborts its iteration (nothing is hashed
\* or printed for it, and it ends by raising) and is not caught: a run in
\* which an iteration raised never completes normally.
C6_FailureAbortsIterationAndRun ==
    /\ \A t \in Threads :
           (frame[t].exc /\ frame[t].md5 = NoDigest) =>
               /\ frame[t].lines = <<>>
               /\ frame[t].pc \in {"unlink", "raised"}
    /\ errors # <<>> => pc # "done"
    /\ pc = "crashed" => errors # <<>> /\ exc

\* The run has ended in the error of a strategy that failed in the pool pass.
C6_Witness ==
    /\ pc = "crashed"
    /\ \E i \in 1..Len(errors) : errors[i].kind = "strategy" /\ errors[i].pass = "pool"

\* C7 (as claimed): once a strategy call has raised, no later strategy call
\* is made, in either pass.
C7_NoLaterPairStarts ==
    \A i \in 1..Len(errors) : errors[i].kind = "strategy" => Len(started) = errors[i].at

\* C7 (amended): after a strategy call raised in the main pass no later
\* strategy call is made and the executor is never created; in the pool
\* pass the main thread, once it has raised the task's exception, leaves no
\* later task pending, and a cancelled task is never run (a task the worker
\* took before it was cancelled is).
C7_FailureTerminatesRun ==
    /\ \A i \in 1..Len(errors) :
           (errors[i].kind = "strategy" /\ errors[i].pass = "main") =>
               /\ Len(started) = errors[i].at
               /\ futures = <<>>
               /\ pc \in {"main_pass", "crashed"}
    /\ (exc /\ pc \in {"shutdown", "join", "crashed"}) =>
           \A k \in 1..Len(futures) : futures[k].state # "PENDING"
    /\ \A w \in Workers : wpc[w] = "run" => futures[wtask[w]].state = "RUNNING"
    /\ \A k \in 1..Len(futures) :
           futures[k].state = "CANCELLED" => ~InSeq(<<"pool", k>>, started)

\* In the pool pass a strategy raised, a later task's strategy was called
\* all the same, and another later task was cancelled.
C7_Witness ==
    /\ \E i \in 1..Len(errors) :
           errors[i].kind = "strategy" /\ errors[i].pass = "pool" /\ Len(started) > errors[i].at
    /\ \E k \in 1..Len(futures) : futures[k].state = "CANCELLED"

\* What bench_download finds for a file descriptor and the content a
\* strategy left: a function of the two alone.
Outcome(fd, content) == IF md5_b64(content) = fd.md5 THEN "match" ELSE "mismatch"

\* C8: in the main pass (thread 0) and in the pool pass (the workers) alike,
\* the outcome an iteration reports is Outcome(file, content written): the
\* mismatch line exactly on "mismatch", and a throughput line only on
\* "match".  So the same pair with the same content gets the same outcome
\* in both passes.
C8_SameOutcomeBothPasses ==
    \A t \in Threads :
        Reported(frame[t]) =>
            /\ HasLine(frame[t], "error") <=> Outcome(file_desc(frame[t]), frame[t].wrote) = "mismatch"
            /\ HasLine(frame[t], "speed") => Outcome(file_desc(frame[t]), frame[t].wrote) = "match"
            /\ frame[t].pass = IF t = MainThread THEN "main" ELSE "pool"

\* Every pair was reported in the main pass, and a pool-pass iteration has
\* reported a match.
C8_Witness ==
    /\ IsPrefix(MainOrder, started)
    /\ \E w \in Workers : Reported(frame[w]) /\ frame[w].pass = "pool" /\ HasLine(frame[w], "speed")

\* C9: a throughput line reports the length of the file as it is on the
\* filesystem, the ticks the strategy call alone took, and their quotient.
C9_Throughput ==
    \A t \in Threads :
        HasLine(frame[t], "speed") =>
            LET l == frame[t].lines[1]
            IN /\ l[3] = frame[t].dl
               /\ frame[t].dl > 0
               /\ l[4] = BLen(frame[t].wrote)
               /\ frame[t].pc = "unlink" => l[4] = BLen(files[frame[t].name])
               /\ l[5] = speed_of(BLen(frame[t].wrote), frame[t].dl)

\* A throughput line was printed by an iteration that spent time outside
\* the strategy call (creating the file, hashing, the size lookup).
C9_Witness ==
    \E t \in Threads :
        /\ HasLine(frame[t], "speed")
        /\ frame[t].now - frame[t].dl >= 3
        /\ BLen(frame[t].wrote) > BlockSize

\* While calc_md5 runs, the blocks fed to the accumulator are
\* non-empty, at most BlockSize long, and concatenate to the bytes of the
\* file read so far; when it returns they concatenate to the whole file and
\* the digest is that of the file hashed at once.
C10_Inv ==
    LET fr == frame[MainThread]
        content == files[fr.name]
    IN /\ fr.pc \in {"md5_read", "compare"} =>
              /\ \A i \in 1..Len(fr.fed) : fr.fed[i] # <<>> /\ BLen(fr.fed[i]) <= BlockSize
              /\ ConcatAll(fr.fed) = Take(content, fr.pos)
              /\ fr.md5hash = ConcatAll(fr.fed)
              /\ fr.pos <= BLen(content)
       /\ fr.pc = "compare" =>
              /\ ConcatAll(fr.fed) = content
              /\ fr.md5 = md5_b64(content)

\* C10: calc_md5 returns for every file length; the blocks it feeds to the
\* accumulator are non-empty, at most BlockSize long, and concatenate in
\* order to the file's content, so the digest is that of the whole file
\* hashed at once.
C10_CalcMd5 == []C10_Inv /\ <>(frame[MainThread].pc = "compare")

\* calc_md5 has returned on a file of exactly MaxBlocks blocks.
C10_Witness ==
    /\ frame[MainThread].pc = "compare"
    /\ BLen(files[frame[MainThread].name]) = MaxBlocks * BlockSize
    /\ Len(frame[MainThread].fed) = MaxBlocks

====
